---- MODULE Spec2Model ----
(***************************************************************************)
(* A model of src/rellax.js: one Rellax instance on one page.              *)
(*                                                                         *)
(* Units.  Layout, scroll offsets and viewport sizes are whole pixels.     *)
(* Translations (the results of updatePosition, baseX/baseY and the        *)
(* numbers written into translate3d) are integers counting hundredths of   *)
(* a pixel, so that both rounding policies (whole pixels / two decimals)   *)
(* are exact.  A percentage is a fraction <<numerator, denominator>>.      *)
(* Arithmetic is exact: IEEE-754 noise of the JavaScript doubles is not    *)
(* modelled.                                                               *)
(*                                                                         *)
(* Style text is a sequence of one-character strings, so that indexOf,     *)
(* slice and replace(/\s/g,'') of createBlock work on it as they do on a   *)
(* JavaScript string.                                                      *)
(***************************************************************************)
EXTENDS Integers, Sequences, FiniteSets, TLC

\* Bounds of the model.
MaxPending == 2   \* at most this many update callbacks wait on the frame clock
MaxScroll == 1    \* a scrolling box scrolls over MaxScroll steps from its origin

----------------------------------------------------------------------------
(* JavaScript strings as sequences of characters *)

Min(S) == CHOOSE x \in S : \A y \in S : x <= y

\* String.prototype.indexOf: 0-based index of the first occurrence, or -1.
IndexOf(s, pat) ==
  LET at == {i \in 0..(Len(s) - Len(pat)) : SubSeq(s, i + 1, i + Len(pat)) = pat}
  IN  IF at = {} THEN -1 ELSE Min(at)

\* String.prototype.slice(from, to) for 0 <= from; to clamps to the length.
Slice(s, from, to) ==
  LET e == IF to > Len(s) THEN Len(s) ELSE to
  IN  IF from >= e THEN <<>> ELSE SubSeq(s, from + 1, e)

\* String.prototype.replace(/\s/g, '')
StripWS(s) == SelectSeq(s, LAMBDA c : c # " ")

Digit == <<"0", "1", "2", "3", "4", "5", "6", "7", "8", "9">>

RECURSIVE NatToChars(_)
NatToChars(n) ==
  IF n < 10 THEN <<Digit[n + 1]>>
  ELSE NatToChars(n \div 10) \o <<Digit[(n % 10) + 1]>>

\* Number-to-string conversion of '' + n, for n given in hundredths.
NumToChars(h) ==
  LET a == IF h < 0 THEN -h ELSE h
      frac == a % 100
      fracChars == IF frac = 0 THEN <<>>
                   ELSE IF frac % 10 = 0 THEN <<".", Digit[(frac \div 10) + 1]>>
                   ELSE <<".", Digit[(frac \div 10) + 1], Digit[(frac % 10) + 1]>>
  IN  (IF h < 0 THEN <<"-">> ELSE <<>>) \o NatToChars(a \div 100) \o fracChars

S_transform == <<"t","r","a","n","s","f","o","r","m">>
S_transformDecl == <<"t","r","a","n","s","f","o","r","m",":"," ">>
S_semicolon == <<";">>
S_translate3d == <<"t","r","a","n","s","l","a","t","e","3","d","(">>
S_pxComma == <<"p","x",",">>
S_pxClose == <<"p","x",")"," ">>

----------------------------------------------------------------------------
(* The page: the environment the library runs in *)

\* An absent attribute (getAttribute returns null) is <<>>, a present one <<v>>.
Absent == <<>>
Has(a) == a # <<>>
Val(a) == a[1]

Css_none == <<>>
Css_opacity == <<"o","p","a","c","i","t","y",":"," ","1",";">>
Css_rotate == <<"t","r","a","n","s","f","o","r","m",":"," ","r","o","t","a","t","e","(","9","d","e","g",")",";">>
\* "transform-origin: 0px 0px; transform: rotate(9deg);"
Css_originRotate ==
  <<"t","r","a","n","s","f","o","r","m","-","o","r","i","g","i","n",":"," ",
    "0","p","x"," ","0","p","x",";"," ">> \o Css_rotate

\* Two pages of two elements of class "rellax".  percentage is in hundredths
\* (data-rellax-percentage="0.2" is <<20>>); top/left are the element's
\* position in the unscrolled document.
ElementsA ==
  << [style |-> Css_none, percentage |-> Absent, speed |-> Absent, zIndex |-> Absent,
      top |-> 300, left |-> 40,
      clientHeight |-> 100, offsetHeight |-> 100, scrollHeight |-> 100,
      clientWidth |-> 200, offsetWidth |-> 200, scrollWidth |-> 200],
     [style |-> Css_rotate, percentage |-> <<20>>, speed |-> <<7>>, zIndex |-> <<5>>,
      top |-> 700, left |-> 300,
      clientHeight |-> 150, offsetHeight |-> 150, scrollHeight |-> 150,
      clientWidth |-> 100, offsetWidth |-> 100, scrollWidth |-> 100] >>

ElementsB ==
  << [style |-> Css_originRotate, percentage |-> Absent, speed |-> <<-4>>, zIndex |-> <<5>>,
      top |-> 450, left |-> 0,
      clientHeight |-> 0, offsetHeight |-> 60, scrollHeight |-> 60,
      clientWidth |-> 0, offsetWidth |-> 80, scrollWidth |-> 80],
     [style |-> Css_opacity, percentage |-> Absent, speed |-> Absent, zIndex |-> Absent,
      top |-> 900, left |-> 120,
      clientHeight |-> 200, offsetHeight |-> 200, scrollHeight |-> 200,
      clientWidth |-> 300, offsetWidth |-> 300, scrollWidth |-> 300] >>

\* Three pages: a tall page that scrolls vertically; a panoramic page that
\* scrolls both ways; and a page that does not scroll itself but whose
\* container #wrap does.  The ...Max fields are the scroll ranges.
Pages ==
  {[els |-> ElementsA, scrollTopMax |-> MaxScroll * 100, scrollLeftMax |-> 0,
    wrapperScrollTopMax |-> 0],
   [els |-> ElementsB, scrollTopMax |-> 100, scrollLeftMax |-> 100,
    wrapperScrollTopMax |-> 0],
   [els |-> ElementsA, scrollTopMax |-> 0, scrollLeftMax |-> 0,
    wrapperScrollTopMax |-> MaxScroll * 50]}

ScrollOffsetsY(pg) == {k * 100 : k \in 0..(pg.scrollTopMax \div 100)}
ScrollOffsetsX(pg) == {k * 100 : k \in 0..(pg.scrollLeftMax \div 100)}
WrapperOffsets(pg) == {k * 50 : k \in 0..(pg.wrapperScrollTopMax \div 50)}
Viewports == {[x |-> 1000, y |-> 600], [x |-> 800, y |-> 500]}

Undefined == "undefined"
WrapperNode == "div#wrap"

\* document.querySelectorAll: every element of the page has class "rellax".
querySelectorAll(pg, sel) ==
  IF sel = ".rellax" THEN [i \in 1..Len(pg.els) |-> i] ELSE <<>>

\* document.querySelector: the page holds one scrollable container, #wrap.
querySelector(sel) == IF sel = "#wrap" THEN WrapperNode ELSE "null"

\* a || b on numbers
JsOr(a, b) == IF a # 0 THEN a ELSE b

\* Math.round(a / d) for d > 0: the nearest integer, halves towards +infinity.
MathRound(a, d) == (2 * a + d) \div (2 * d)

\* el.getBoundingClientRect(): viewport-relative; the tracked elements lie
\* inside #wrap, so both the document's and the container's scrolling move
\* them.  It is only ever read right after init restored the element's
\* style, so the parallax translation never contributes.
RectTop(env, e) == env.page.els[e].top - env.scroll.y - env.wrapperScrollTop
RectLeft(env, e) == env.page.els[e].left - env.scroll.x

\* The CSSOM: el.style.transform = value replaces the value of the
\* declaration named exactly "transform" in place, or appends one.  The
\* value is stored with its white space collapsed and trimmed.  A value
\* that does not parse as a list of transform functions is ignored and the
\* style stays as it was.
Collapse(s) ==
  LET marked == [i \in 1..Len(s) |->
                   IF s[i] = " " /\ i < Len(s) /\ s[i + 1] = " " THEN "" ELSE s[i]]
  IN  SelectSeq(marked, LAMBDA c : c # "")

Trim(s) ==
  LET a == IF s # <<>> /\ s[1] = " " THEN Tail(s) ELSE s
  IN  IF a # <<>> /\ a[Len(a)] = " " THEN SubSeq(a, 1, Len(a) - 1) ELSE a

TransformDeclAt(css) ==
  LET at == {i \in 0..(Len(css) - Len(S_transformDecl)) :
               /\ SubSeq(css, i + 1, i + Len(S_transformDecl)) = S_transformDecl
               /\ (i = 0 \/ css[i] = " ")}
  IN  IF at = {} THEN -1 ELSE Min(at)

\* Of the values animate can build (a translate3d(...) followed by the text
\* createBlock extracted), the transform lists are those that end with the
\* closing parenthesis of a function and hold no colon or semicolon.
ParsesAsTransformList(value) ==
  LET v == Trim(Collapse(value))
  IN  /\ v # <<>>
      /\ v[Len(v)] = ")"
      /\ \A i \in 1..Len(v) : v[i] \notin {":", ";"}

SetTransform(css, value) ==
  LET decl == S_transformDecl \o Trim(Collapse(value)) \o S_semicolon
      at == TransformDeclAt(css)
      rest == Slice(css, at, Len(css))
      semi == IndexOf(rest, S_semicolon)
  IN  IF ~ParsesAsTransformList(value) THEN css
      ELSE IF at = -1
      THEN (IF css = <<>> THEN decl ELSE css \o <<" ">> \o decl)
      ELSE Slice(css, 0, at) \o decl \o Slice(rest, semi + 1, Len(rest))

----------------------------------------------------------------------------
(* State *)

VARIABLES
  page,              \* the document: its tracked elements' attributes and layout
  scroll,            \* the document's scroll offset [x, y]
  wrapperScrollTop,  \* scrollTop of the container #wrap
  viewport,          \* window.innerWidth / innerHeight as [x, y]
  style,             \* style[e]: el.style.cssText of page element e
  listeners,         \* the window's registered resize listeners
  pending,           \* update callbacks waiting on the frame clock
  frame,             \* parity of the number of callbacks the frame clock has run
  phase,             \* "unconstructed", "live" or "failed" (the constructor threw)
  error,             \* what the constructor threw, or "none"
  args,              \* the arguments of the constructor call, once made
  self,              \* the Rellax instance (this)
  eff                \* what the last step did: the observable effects of one operation

vars == <<page, scroll, wrapperScrollTop, viewport, style, listeners, pending,
          frame, phase, error, args, self, eff>>

envVars == <<page, scroll, wrapperScrollTop, viewport>>

\* src/rellax.js:65-73
DefaultSpeed == -2

NoWrapper == [kind |-> "null", v |-> "null"]
DefaultOptions ==
  [speed |-> DefaultSpeed, center |-> FALSE, wrapper |-> NoWrapper, round |-> TRUE,
   vertical |-> TRUE, horizontal |-> FALSE]

\* The option objects a caller passes (merged over the defaults key by key).
WrapperOptions ==
  {NoWrapper, [kind |-> "node", v |-> WrapperNode],
   [kind |-> "string", v |-> "#wrap"], [kind |-> "string", v |-> "#nope"]}

\* Lines 76-80: the user's options are copied over the defaults key by key.
mergeOptions(options) ==
  [key \in DOMAIN DefaultOptions |->
     IF key \in DOMAIN options THEN options[key] ELSE DefaultOptions[key]]

Only(key, value) == [k \in {key} |-> value]

UserOptions ==
  {<<>>,
   Only("center", TRUE),
   [round |-> FALSE, horizontal |-> TRUE],
   [vertical |-> FALSE, horizontal |-> TRUE]}
  \cup {Only("wrapper", w) : w \in WrapperOptions \ {NoWrapper}}

\* The first argument of the constructor: a selector or an HTMLElement.
Targets ==
  {[html |-> FALSE, v |-> ".rellax"], [html |-> FALSE, v |-> ".missing"],
   [html |-> TRUE, v |-> "1"]}

\* window.options, which line 91 reads through the global `self`
\* (window.self): undefined unless the page happens to define a global of
\* that name.
WindowOptions == {Undefined, "#wrap", "#nope"}

\* The effects of a step, before the step has done anything.
NoEffect(op) ==
  [op |-> op, writes |-> {}, renders |-> <<>>, callbacks |-> 0, scheduled |-> 0,
   rebuilt |-> FALSE, reads |-> {}, changed |-> FALSE]

\* The object after lines 53-80 of the constructor.
NewInstance(options) ==
  [state |-> <<>>,
   DOM |-> [elements |-> <<>>, wrapper |-> Undefined],
   pos |-> [x |-> 0, y |-> 0],
   screen |-> [x |-> 0, y |-> 0],
   blocks |-> <<>>,
   pause |-> FALSE,
   options |-> options]

\* The program state an operation works on, as one record.
World ==
  [env |-> [page |-> page, scroll |-> scroll, wrapperScrollTop |-> wrapperScrollTop,
            viewport |-> viewport],
   self |-> self, style |-> style, listeners |-> listeners, pending |-> pending,
   eff |-> eff]

Commit(m) ==
  \E w \in {m} :
    /\ self' = w.self
    /\ style' = w.style
    /\ listeners' = w.listeners
    /\ pending' = w.pending
    /\ eff' = w.eff

----------------------------------------------------------------------------
(* The methods of Rellax.prototype, as functions from world to world *)

\* updatePosition: percentages are fractions <<n, d>> with d > 0; the result
\* is in hundredths of a pixel.
calc(round, speed, pct) ==
  IF round THEN 100 * MathRound(speed * 100 * (pct[2] - pct[1]), pct[2])
  ELSE MathRound(speed * 100 * (pct[2] - pct[1]) * 100, pct[2])

updatePosition(this, percentageX, percentageY, speed) ==
  [x |-> calc(this.options.round, speed, percentageX),
   y |-> calc(this.options.round, speed, percentageY)]

\* setPosition comparing both axes whether or not they are enabled.
setPosition_ignoringAxisFlags(m) ==
  LET this == m.self
      prevPos == this.pos
      hasWrapper == this.DOM.wrapper # Undefined
      y == IF hasWrapper THEN m.env.wrapperScrollTop ELSE m.env.scroll.y
      pos == [prevPos EXCEPT !.y = y]
      changed == prevPos.y # pos.y \/ prevPos.x # pos.x
  IN  [m |-> [m EXCEPT !.self.pos = pos,
                       !.eff.reads = @ \cup {IF hasWrapper THEN "wrapper" ELSE "document"},
                       !.eff.changed = changed],
       changed |-> changed]

\* setPosition: reads the vertical scroll offset into pos.y and tells whether
\* an enabled axis changed.  pos.x is never assigned.
setPosition(m) ==
  LET this == m.self
      prevPos == this.pos
      hasWrapper == this.DOM.wrapper # Undefined
      y == IF hasWrapper THEN m.env.wrapperScrollTop ELSE m.env.scroll.y
      pos == [prevPos EXCEPT !.y = y]
      changed == IF prevPos.y # pos.y /\ this.options.vertical THEN TRUE
                 ELSE IF prevPos.x # pos.x /\ this.options.horizontal THEN TRUE
                 ELSE FALSE
  IN  [m |-> [m EXCEPT !.self.pos = pos,
                       !.eff.reads = @ \cup {IF hasWrapper THEN "wrapper" ELSE "document"},
                       !.eff.changed = changed],
       changed |-> changed]

\* The inline transform createBlock extracts from the style text.
extractTransform(styleText) ==
  IF IndexOf(styleText, S_transform) >= 0
  THEN LET index == IndexOf(styleText, S_transform)
           trimmedStyle == Slice(styleText, index, Len(styleText))
           delimiter == IndexOf(trimmedStyle, S_semicolon)
           end == IF delimiter = -1 THEN Len(trimmedStyle) ELSE delimiter
       IN  <<" ">> \o StripWS(Slice(trimmedStyle, 11, end))
  ELSE <<>>

\* The scroll containers createBlock reads for element e.
createBlockReads(m, e) ==
  LET this == m.self
      attr == m.env.page.els[e]
  IN  {IF this.DOM.wrapper # Undefined THEN "wrapper" ELSE "document"}
      \cup (IF this.options.horizontal /\ (Has(attr.percentage) \/ this.options.center)
            THEN {"document"} ELSE {})

\* createBlock letting a declared percentage attribute win over options.center.
createBlock_attributeOverCenter(m, e) ==
  LET this == m.self
      el == m.env.page.els[e]
      wrapperPosY == IF this.DOM.wrapper # Undefined THEN m.env.wrapperScrollTop
                     ELSE m.env.scroll.y
      posY == IF this.options.vertical
              THEN (IF Has(el.percentage) \/ this.options.center THEN wrapperPosY ELSE 0)
              ELSE 0
      posX == IF this.options.horizontal
              THEN (IF Has(el.percentage) \/ this.options.center THEN m.env.scroll.x ELSE 0)
              ELSE 0
      blockTop == posY + RectTop(m.env, e)
      blockLeft == posX + RectLeft(m.env, e)
      blockHeight == JsOr(JsOr(el.clientHeight, el.offsetHeight), el.scrollHeight)
      blockWidth == JsOr(JsOr(el.clientWidth, el.offsetWidth), el.scrollWidth)
      percentageY == IF Has(el.percentage) THEN <<Val(el.percentage), 100>>
                     ELSE IF this.options.center THEN <<1, 2>>
                     ELSE <<posY - blockTop + this.screen.y, blockHeight + this.screen.y>>
      percentageX == IF Has(el.percentage) THEN <<Val(el.percentage), 100>>
                     ELSE IF this.options.center THEN <<1, 2>>
                     ELSE <<posX - blockLeft + this.screen.x, blockWidth + this.screen.x>>
      speed == IF Has(el.speed) THEN Val(el.speed) ELSE this.options.speed
      bases == updatePosition(this, percentageX, percentageY, speed)
      styleText == m.style[e]
  IN  [node |-> e,
       baseX |-> bases.x,
       baseY |-> bases.y,
       top |-> blockTop,
       left |-> blockLeft,
       height |-> blockHeight,
       width |-> blockWidth,
       speed |-> speed,
       style |-> styleText,
       transform |-> extractTransform(styleText),
       zIndex |-> IF Has(el.zIndex) THEN Val(el.zIndex) ELSE 0]

\* createBlock: the snapshot of element e taken at init.
createBlock(m, e) ==
  LET this == m.self
      el == m.env.page.els[e]
      wrapperPosY == IF this.DOM.wrapper # Undefined THEN m.env.wrapperScrollTop
                     ELSE m.env.scroll.y
      posY == IF this.options.vertical
              THEN (IF Has(el.percentage) \/ this.options.center THEN wrapperPosY ELSE 0)
              ELSE 0
      posX == IF this.options.horizontal
              THEN (IF Has(el.percentage) \/ this.options.center THEN m.env.scroll.x ELSE 0)
              ELSE 0
      blockTop == posY + RectTop(m.env, e)
      blockLeft == posX + RectLeft(m.env, e)
      blockHeight == JsOr(JsOr(el.clientHeight, el.offsetHeight), el.scrollHeight)
      blockWidth == JsOr(JsOr(el.clientWidth, el.offsetWidth), el.scrollWidth)
      percentageY == IF this.options.center THEN <<1, 2>>
                     ELSE IF Has(el.percentage) THEN <<Val(el.percentage), 100>>
                     ELSE <<posY - blockTop + this.screen.y, blockHeight + this.screen.y>>
      percentageX == IF this.options.center THEN <<1, 2>>
                     ELSE IF Has(el.percentage) THEN <<Val(el.percentage), 100>>
                     ELSE <<posX - blockLeft + this.screen.x, blockWidth + this.screen.x>>
      speed == IF Has(el.speed) THEN Val(el.speed) ELSE this.options.speed
      bases == updatePosition(this, percentageX, percentageY, speed)
      styleText == m.style[e]
  IN  [node |-> e,
       baseX |-> bases.x,
       baseY |-> bases.y,
       top |-> blockTop,
       left |-> blockLeft,
       height |-> blockHeight,
       width |-> blockWidth,
       speed |-> speed,
       style |-> styleText,
       transform |-> extractTransform(styleText),
       zIndex |-> IF Has(el.zIndex) THEN Val(el.zIndex) ELSE 0]

\* cacheBlocks: pushes one block per tracked element onto this.blocks.
cacheBlocks(m) ==
  LET elements == m.self.DOM.elements
      made == [i \in 1..Len(elements) |-> createBlock(m, elements[i])]
      reads == UNION {createBlockReads(m, elements[i]) : i \in 1..Len(elements)}
  IN  [m EXCEPT !.self.blocks = @ \o made,
                !.eff.rebuilt = TRUE,
                !.eff.reads = @ \cup reads]

\* animateOne writing the computed offset on a disabled axis too.
animateOne_ignoringAxes(this, i) ==
  LET block == this.blocks[i]
      percentageY == <<this.pos.y - block.top + this.screen.y, block.height + this.screen.y>>
      percentageX == <<this.pos.x - block.left + this.screen.x, block.width + this.screen.x>>
      positions == updatePosition(this, percentageX, percentageY, block.speed)
  IN  [positions |-> positions,
       x |-> positions.x - block.baseX,
       y |-> positions.y - block.baseY,
       z |-> block.zIndex,
       transform |-> block.transform]

\* What animate computes for element i: positions (before the base is
\* subtracted) and the three components it writes.
animateOne(this, i) ==
  LET block == this.blocks[i]
      percentageY == <<this.pos.y - block.top + this.screen.y, block.height + this.screen.y>>
      percentageX == <<this.pos.x - block.left + this.screen.x, block.width + this.screen.x>>
      positions == updatePosition(this, percentageX, percentageY, block.speed)
      positionY == positions.y - block.baseY
      positionX == positions.x - block.baseX
  IN  [positions |-> positions,
       x |-> IF this.options.horizontal THEN positionX ELSE 0,
       y |-> IF this.options.vertical THEN positionY ELSE 0,
       z |-> block.zIndex,
       transform |-> block.transform]

translate(w) ==
  S_translate3d \o NumToChars(w.x) \o S_pxComma \o NumToChars(w.y) \o S_pxComma
  \o NatToChars(w.z) \o S_pxClose \o w.transform

\* animate calling the callback inside its loop, once per element.
animate_callingBackPerElement(m) ==
  LET this == m.self
      elements == this.DOM.elements
      n == Len(elements)
      w == [i \in 1..n |-> animateOne(this, i)]
      written == {elements[i] : i \in 1..n}
      pos(e) == CHOOSE i \in 1..n : elements[i] = e
  IN  [m EXCEPT
         !.style = [e \in DOMAIN m.style |->
                      IF e \in written THEN SetTransform(m.style[e], translate(w[pos(e)]))
                      ELSE m.style[e]],
         !.self.state = IF n = 0 THEN @ ELSE <<w[n].positions>>,
         !.eff.writes = @ \cup written,
         !.eff.renders = Append(@, [i \in 1..n |-> [x |-> w[i].x, y |-> w[i].y, z |-> w[i].z]]),
         !.eff.callbacks = @ + n]

\* animate: writes a transform to every tracked element, then calls the callback.
animate(m) ==
  LET this == m.self
      elements == this.DOM.elements
      n == Len(elements)
      w == [i \in 1..n |-> animateOne(this, i)]
      written == {elements[i] : i \in 1..n}
      pos(e) == CHOOSE i \in 1..n : elements[i] = e
  IN  [m EXCEPT
         !.style = [e \in DOMAIN m.style |->
                      IF e \in written THEN SetTransform(m.style[e], translate(w[pos(e)]))
                      ELSE m.style[e]],
         !.self.state = IF n = 0 THEN @ ELSE <<w[n].positions>>,
         !.eff.writes = @ \cup written,
         !.eff.renders = Append(@, [i \in 1..n |-> [x |-> w[i].x, y |-> w[i].y, z |-> w[i].z]]),
         !.eff.callbacks = @ + 1]

\* update without the test of this.pause.
update_ignoringPause(m) ==
  LET sp == setPosition(m)
      m1 == IF sp.changed THEN animate(sp.m) ELSE sp.m
  IN  [m1 EXCEPT !.pending = @ + 1, !.eff.scheduled = @ + 1]

\* update measuring the elements again on every tick.
update_remeasuring(m) ==
  LET sp == setPosition(m)
      m0 == cacheBlocks([sp.m EXCEPT !.self.blocks = <<>>])
      m1 == IF sp.changed /\ m.self.pause = FALSE THEN animate(m0) ELSE m0
  IN  [m1 EXCEPT !.pending = @ + 1, !.eff.scheduled = @ + 1]

\* update asking for the next frame only while the instance is not paused.
update_stoppingWhenPaused(m) ==
  LET sp == setPosition(m)
      m1 == IF sp.changed /\ m.self.pause = FALSE THEN animate(sp.m) ELSE sp.m
  IN  IF m.self.pause THEN m1
      ELSE [m1 EXCEPT !.pending = @ + 1, !.eff.scheduled = @ + 1]

\* update: one tick of the loop; always asks the frame clock for the next one.
update(m) ==
  LET sp == setPosition(m)
      m1 == IF sp.changed /\ m.self.pause = FALSE THEN animate(sp.m) ELSE sp.m
  IN  [m1 EXCEPT !.pending = @ + 1, !.eff.scheduled = @ + 1]

\* init without its first loop.
restoreStyles_skipped(m) == m

\* The first loop of init: every element that has a block gets its cached
\* style text back.
restoreStyles(m) ==
  LET this == m.self
      restored == {i \in 1..Len(this.DOM.elements) : i <= Len(this.blocks)}
      pos(e) == CHOOSE i \in restored : this.DOM.elements[i] = e
      nodes == {this.DOM.elements[i] : i \in restored}
  IN  [m EXCEPT
         !.style = [e \in DOMAIN m.style |->
                      IF e \in nodes THEN this.blocks[pos(e)].style ELSE m.style[e]],
         !.eff.writes = @ \cup nodes]

\* init without emptying this.blocks before cacheBlocks pushes onto it.
init_keepingBlocks(m) ==
  LET m1 == restoreStyles(m)
      m2 == [m1 EXCEPT !.self.screen = [x |-> m.env.viewport.x, y |-> m.env.viewport.y]]
      m3 == setPosition(m2).m
      m4 == cacheBlocks(m3)
      m5 == animate(m4)
  IN  update(m5)

\* init setting pause back to false, so that refresh() resumes a destroyed
\* instance.
init_unpausing(m) ==
  LET m1 == restoreStyles(m)
      m2 == [m1 EXCEPT !.self.blocks = <<>>,
                       !.self.screen = [x |-> m.env.viewport.x, y |-> m.env.viewport.y],
                       !.self.pause = FALSE]
      m3 == setPosition(m2).m
      m4 == cacheBlocks(m3)
      m5 == animate(m4)
  IN  update(m5)

\* init (also exposed as refresh)
init(m) ==
  LET m1 == restoreStyles(m)
      m2 == [m1 EXCEPT !.self.blocks = <<>>,
                       !.self.screen = [x |-> m.env.viewport.x, y |-> m.env.viewport.y]]
      m3 == setPosition(m2).m
      m4 == cacheBlocks(m3)
      m5 == animate(m4)
  IN  update(m5)

onwindowResize(m) == init(m)

\* Function.prototype.bind returns a new function object on every call: a
\* bound function is identified by the line of the bind call that made it.
BoundAtConstructor == "onwindowResize.bind@100"
BoundAtDestroy == "onwindowResize.bind@288"

\* destroy with its loop stopping one element early.
destroy_stoppingEarly(m) ==
  LET this == m.self
      n == Len(this.DOM.elements) - 1
      nodes == {this.DOM.elements[i] : i \in 1..n}
      pos(e) == CHOOSE i \in 1..n : this.DOM.elements[i] = e
  IN  [m EXCEPT
         !.style = [e \in DOMAIN m.style |->
                      IF e \in nodes THEN this.blocks[pos(e)].style ELSE m.style[e]],
         !.eff.writes = @ \cup nodes,
         !.self.pause = TRUE,
         !.listeners = @ \ {BoundAtDestroy}]

destroy(m) ==
  LET this == m.self
      n == Len(this.DOM.elements)
      nodes == {this.DOM.elements[i] : i \in 1..n}
      pos(e) == CHOOSE i \in 1..n : this.DOM.elements[i] = e
  IN  [m EXCEPT
         !.style = [e \in DOMAIN m.style |->
                      IF e \in nodes THEN this.blocks[pos(e)].style ELSE m.style[e]],
         !.eff.writes = @ \cup nodes,
         !.self.pause = TRUE,
         !.listeners = @ \ {BoundAtDestroy}]

\* The constructor without the check of this.DOM.elements.length.
constructorThrows_uncheckedTarget(elements, byString, windowOptions) ==
  IF byString /\ windowOptions = Undefined THEN "TypeError"
  ELSE IF byString /\ querySelector(windowOptions) = "null" THEN "WrapperDontExist"
  ELSE "none"

\* What the constructor throws at lines 85-95, if anything: the two errors
\* it raises itself, and the TypeError of reading .wrapper of an undefined
\* window.options.
constructorThrows(elements, byString, windowOptions) ==
  IF Len(elements) = 0 THEN "ElementsDontExist"
  ELSE IF byString /\ windowOptions = Undefined THEN "TypeError"
  ELSE IF byString /\ querySelector(windowOptions) = "null" THEN "WrapperDontExist"
  ELSE "none"

\* The constructor, lines 48-101, called with target el and the user's
\* options on a page whose window.options is windowOptions.  It throws
\* (error # "none") or returns the instance, initialized and listening.
constructor(m, el, options, windowOptions) ==
  LET this0 == NewInstance(mergeOptions(options))
      elements == IF el.html THEN <<1>> ELSE querySelectorAll(m.env.page, el.v)
      this1 == [this0 EXCEPT !.DOM.elements = elements]
      byString == this0.options.wrapper.kind = "string"
      found == querySelector(windowOptions)
      this2 == IF byString /\ windowOptions # Undefined
               THEN [this1 EXCEPT !.DOM.wrapper = IF found = "null" THEN Undefined ELSE found]
               ELSE this1
      err == constructorThrows(elements, byString, windowOptions)
      thrown == [m EXCEPT !.self = IF err = "ElementsDontExist" THEN this1 ELSE this2]
      m1 == init([m EXCEPT !.self = this2])
  IN  [error |-> err,
       m |-> IF err # "none" THEN thrown
             ELSE [m1 EXCEPT !.listeners = @ \cup {BoundAtConstructor}]]

\* The window dispatches a resize event to its listeners.
dispatchResize(m) ==
  IF BoundAtConstructor \in m.listeners THEN onwindowResize(m) ELSE m

----------------------------------------------------------------------------
(* The state machine *)

Init ==
  /\ page \in Pages
  /\ scroll = [x |-> 0, y |-> 0]
  /\ wrapperScrollTop = 0
  /\ viewport \in Viewports
  /\ style = [e \in 1..Len(page.els) |-> page.els[e].style]
  /\ listeners = {}
  /\ pending = 0
  /\ frame = 0
  /\ phase = "unconstructed"
  /\ error = "none"
  /\ args = [el |-> [html |-> FALSE, v |-> ""], windowOptions |-> Undefined]
  /\ self = NewInstance(DefaultOptions)
  /\ eff = NoEffect("none")

\* new Rellax(el, options)
Construct ==
  /\ phase = "unconstructed"
  /\ \E el \in Targets, options \in UserOptions, windowOptions \in WindowOptions :
       LET r == constructor([World EXCEPT !.eff = NoEffect("construct")],
                            el, options, windowOptions)
       IN  /\ args' = [el |-> el, windowOptions |-> windowOptions]
           /\ error' = r.error
           /\ phase' = IF r.error = "none" THEN "live" ELSE "failed"
           /\ Commit(r.m)
  /\ UNCHANGED <<envVars, frame>>

\* The frame clock runs one pending update callback.
Tick ==
  /\ phase = "live"
  /\ pending > 0
  /\ Commit(update([World EXCEPT !.pending = @ - 1, !.eff = NoEffect("tick")]))
  /\ frame' = 1 - frame
  /\ UNCHANGED <<envVars, phase, error, args>>

\* rellax.refresh()
Refresh ==
  /\ phase = "live"
  /\ pending < MaxPending
  /\ Commit(init([World EXCEPT !.eff = NoEffect("refresh")]))
  /\ UNCHANGED <<envVars, frame, phase, error, args>>

\* rellax.destroy()
Destroy ==
  /\ phase = "live"
  /\ Commit(destroy([World EXCEPT !.eff = NoEffect("destroy")]))
  /\ UNCHANGED <<envVars, frame, phase, error, args>>

\* The window is resized (possibly back to the same size) and fires its
\* resize event.
Resize ==
  /\ pending < MaxPending
  /\ \E v \in Viewports :
       /\ viewport' = v
       /\ Commit(dispatchResize([World EXCEPT !.env.viewport = v,
                                              !.eff = NoEffect("resize")]))
  /\ UNCHANGED <<page, scroll, wrapperScrollTop, frame, phase, error, args>>

\* The user scrolls the document vertically.
ScrollY ==
  /\ \E y \in ScrollOffsetsY(page) \ {scroll.y} : scroll' = [scroll EXCEPT !.y = y]
  /\ eff' = NoEffect("scroll")
  /\ UNCHANGED <<page, wrapperScrollTop, viewport, style, listeners, pending,
                 frame, phase, error, args, self>>

\* The user scrolls the document horizontally.
ScrollX ==
  /\ \E x \in ScrollOffsetsX(page) \ {scroll.x} : scroll' = [scroll EXCEPT !.x = x]
  /\ eff' = NoEffect("scroll")
  /\ UNCHANGED <<page, wrapperScrollTop, viewport, style, listeners, pending,
                 frame, phase, error, args, self>>

\* The user scrolls the container #wrap.
ScrollWrapper ==
  /\ \E t \in WrapperOffsets(page) \ {wrapperScrollTop} : wrapperScrollTop' = t
  /\ eff' = NoEffect("scroll")
  /\ UNCHANGED <<page, scroll, viewport, style, listeners, pending,
                 frame, phase, error, args, self>>

Next ==
  \/ Construct
  \/ Tick
  \/ Refresh
  \/ Destroy
  \/ Resize
  \/ ScrollY
  \/ ScrollX
  \/ ScrollWrapper

Spec == Init /\ [][Next]_vars

\* A frame: the step of the frame clock that runs a pending callback.  Only
\* Tick changes frame, and Tick is enabled exactly when the instance is live
\* with a callback pending, so the steps that are a Frame are the Tick steps.
Frame ==
  /\ phase = "live"
  /\ pending > 0
  /\ frame' = 1 - frame

\* The frame clock keeps delivering: a callback handed to
\* requestAnimationFrame (or to the setTimeout fallback) is eventually run.
FairSpec == Spec /\ WF_frame(Frame)

----------------------------------------------------------------------------
(* Properties *)

Tracked == {self.DOM.elements[i] : i \in 1..Len(self.DOM.elements)}

\* The style text element e had before the constructor was called.
OriginalStyle(e) == page.els[e].style

\* C1: after destroy() returns, the style text of every tracked element is
\* the style text the element had before construction, whatever ticks,
\* scroll changes, refreshes and resize events came before.
C1_DestroyRestoresStyle ==
  eff.op = "destroy" => \A e \in Tracked : style[e] = OriginalStyle(e)

\* destroy() has just returned on an instance that was re-initialized at
\* least once, has seen the page scrolled, and tracks an element with an
\* inline transform of its own.
C1_Witness ==
  /\ eff.op = "destroy"
  /\ pending >= 2
  /\ self.pos.y # 0
  /\ \E i \in 1..Len(self.blocks) : self.blocks[i].transform # <<>>

\* C2 (as claimed): a resize event re-initializes the instance iff it is
\* constructed and not destroyed; after destroy() a resize event rebuilds no
\* snapshot, writes no style, invokes no callback and schedules no tick.
C2_ResizeReinitIffNotDestroyed ==
  eff.op = "resize" =>
    /\ (phase = "live" /\ ~self.pause) => eff.rebuilt
    /\ (phase # "live" \/ self.pause) =>
         /\ ~eff.rebuilt
         /\ eff.writes = {}
         /\ eff.callbacks = 0
         /\ eff.scheduled = 0

\* C3: after destroy(), no tick writes a style or transform to any element
\* or invokes the callback, whatever the scroll offset did; the tick still
\* schedules its successor.
C3_NoRenderByTickAfterDestroy ==
  [][(self.pause /\ eff'.op = "tick") =>
       /\ style' = style
       /\ eff'.writes = {}
       /\ eff'.renders = <<>>
       /\ eff'.callbacks = 0
       /\ eff'.scheduled = 1
       /\ pending' = pending]_vars

\* A tick of a destroyed instance that observed a changed scroll offset.
C3_Witness ==
  /\ eff.op = "tick"
  /\ self.pause
  /\ eff.changed

\* The constructor's target resolved to no element.
TargetIsEmpty == ~args.el.html /\ querySelectorAll(page, args.el.v) = <<>>

\* C4: a constructor call whose target resolves to zero elements fails with
\* the invalid-target error and leaves nothing behind: no element style is
\* modified, no resize listener is registered, no tick is scheduled.
C4_EmptyTargetFailsCleanly ==
  (phase # "unconstructed" /\ TargetIsEmpty) =>
    /\ phase = "failed"
    /\ error = "ElementsDontExist"
    /\ \A e \in DOMAIN style : style[e] = OriginalStyle(e)
    /\ listeners = {}
    /\ pending = 0
    /\ eff.writes = {}
    /\ eff.scheduled = 0

\* The constructor was called with a selector matching nothing, on a scrolled
\* page, together with a wrapper option.
C4_Witness ==
  /\ phase = "failed"
  /\ TargetIsEmpty
  /\ self.options.wrapper.kind = "string"

\* The wrapper option is a selector string.
WrapperBySelector == self.options.wrapper.kind = "string"

\* C5 (as claimed): a constructor call with a non-element wrapper option
\* fails with the invalid-wrapper error when that wrapper cannot be resolved,
\* and succeeds with the resolved container as its scroll container when it
\* can; a wrapper option raises no other kind of failure.
C5_WrapperOptionOutcome ==
  (phase # "unconstructed" /\ ~TargetIsEmpty) =>
    /\ error \in {"none", "WrapperDontExist"}
    /\ WrapperBySelector =>
         IF querySelector(self.options.wrapper.v) = "null"
         THEN phase = "failed" /\ error = "WrapperDontExist"
         ELSE /\ phase = "live"
              /\ self.DOM.wrapper = querySelector(self.options.wrapper.v)

WrapperConfigured == self.options.wrapper.kind # "null"

\* C6 (as claimed): on a constructed instance with a wrapper configured, by
\* handle or by selector, every tick and every snapshot capture reads the
\* scroll offset from the wrapper and never from the document; the document
\* is read only when no wrapper is configured.
C6_ScrollReadFromConfiguredContainer ==
  (phase = "live" /\ eff.op \in {"construct", "refresh", "resize", "tick"}) =>
    IF WrapperConfigured THEN eff.reads \subseteq {"wrapper"}
    ELSE eff.reads \subseteq {"document"}

\* Element e is in default mode: no percentage attribute, center off.
DefaultMode(e) == ~Has(page.els[e].percentage) /\ ~self.options.center

\* C7 (as claimed): the render performed by construct or refresh writes a
\* translation of 0 on every axis for every element in default mode,
\* whatever the scroll offset at capture time.  Stated for the instances
\* that scroll with the document (no wrapper option).
C7_DefaultModeStartsAtZero ==
  (phase = "live" /\ eff.op \in {"construct", "refresh"} /\ ~WrapperConfigured) =>
    \A i \in 1..Len(self.DOM.elements) :
      DefaultMode(self.DOM.elements[i]) =>
        /\ eff.renders[1][i].x = 0
        /\ eff.renders[1][i].y = 0

\* The scroll offsets as they are when the step's render happens: vertical
\* from the container the instance resolved, horizontal from the document.
LiveScroll ==
  [x |-> scroll.x,
   y |-> IF self.DOM.wrapper # Undefined THEN wrapperScrollTop ELSE scroll.y]

\* map at the percentage of block i at scroll offset s, minus the base offset.
Expected(i, s) ==
  LET block == self.blocks[i]
      mapped == updatePosition(self,
                  <<s.x - block.left + self.screen.x, block.width + self.screen.x>>,
                  <<s.y - block.top + self.screen.y, block.height + self.screen.y>>,
                  block.speed)
  IN  [x |-> mapped.x - block.baseX, y |-> mapped.y - block.baseY]

\* C8 (as claimed): in every render, the translation written on each enabled
\* axis is map at the percentage taken with the live scroll offset of that
\* axis, with the element's speed, minus the element's base offset.
C8_RenderMatchesMap ==
  \A k \in 1..Len(eff.renders) : \A i \in 1..Len(eff.renders[k]) :
    /\ self.options.horizontal => eff.renders[k][i].x = Expected(i, LiveScroll).x
    /\ self.options.vertical => eff.renders[k][i].y = Expected(i, LiveScroll).y

\* C9: on a disabled axis every transform written to every tracked element
\* has the component 0, in every render and for every scroll offset: both
\* the number handed to the style and the text the element's style holds.
C9_DisabledAxisIsZero ==
  /\ \A k \in 1..Len(eff.renders) : \A i \in 1..Len(eff.renders[k]) :
       /\ ~self.options.horizontal => eff.renders[k][i].x = 0
       /\ ~self.options.vertical => eff.renders[k][i].y = 0
  /\ eff.renders # <<>> =>
       \A e \in Tracked : IndexOf(style[e], S_translate3d) >= 0 =>
         /\ ~self.options.horizontal =>
              IndexOf(style[e], S_translate3d \o <<"0">> \o S_pxComma) >= 0
         /\ ~self.options.vertical =>
              IndexOf(style[e], S_pxComma \o <<"0">> \o S_pxComma) >= 0

\* A render with the vertical axis disabled, of an element whose vertical
\* offset would not have been 0 had the axis been enabled.
C9_Witness ==
  /\ eff.renders # <<>>
  /\ ~self.options.vertical
  /\ scroll.y # 0
  /\ \E i \in 1..Len(self.blocks) :
       Expected(i, [x |-> self.pos.x, y |-> self.pos.y]).y # 0

\* The last step re-initialized the instance (init ran).
Reinitialized(e) == e.op \in {"construct", "refresh", "resize"} /\ e.rebuilt

\* C10: refresh() accumulates no drift.  A re-initialization (refresh() or
\* a resize event) that directly follows another, the viewport being the
\* same (layout and scroll offsets cannot differ, no step lies between),
\* leaves every snapshot and every element's style text as they were.
C10_RefreshDoesNotDrift ==
  [][(Reinitialized(eff) /\ Reinitialized(eff') /\ viewport' = viewport) =>
       /\ self'.blocks = self.blocks
       /\ style' = style]_vars

\* A refresh() of an instance initialized before, on a scrolled page, with
\* an element that carries an inline transform of its own.
C10_Witness ==
  /\ eff.op = "refresh"
  /\ pending >= 2
  /\ scroll.y # 0
  /\ \E i \in 1..Len(self.blocks) :
       /\ self.blocks[i].transform # <<>>
       /\ eff.renders[1][i].y # 0

\* C11: the callback is invoked exactly once per render and never outside
\* one.  A construct or refresh renders exactly once; a tick renders once if
\* it saw an enabled axis change on an instance that is not paused, and
\* otherwise neither renders nor calls back; no other step calls back.
C11_CallbackOncePerRender ==
  /\ eff.callbacks = Len(eff.renders)
  /\ (phase = "live" /\ eff.op \in {"construct", "refresh"}) => eff.callbacks = 1
  /\ eff.op = "tick" =>
       eff.callbacks = IF eff.changed /\ ~self.pause THEN 1 ELSE 0
  /\ eff.op \in {"none", "scroll", "destroy"} => eff.callbacks = 0
  /\ phase = "failed" => eff.callbacks = 0

\* A tick that rendered two tracked elements.
C11_Witness ==
  /\ eff.op = "tick"
  /\ eff.callbacks = 1
  /\ Len(eff.renders[1]) = 2

\* C12: with center: true the percentage is pinned to 0.5 on both axes
\* whatever percentage attribute an element declares: every snapshot's base
\* offset is updatePosition(0.5, 0.5, speed) for the element's resolved speed.
C12_CenterPinsPercentage ==
  (phase = "live" /\ self.options.center) =>
    \A i \in 1..Len(self.blocks) :
      LET b == self.blocks[i]
          el == page.els[b.node]
          speed == IF Has(el.speed) THEN Val(el.speed) ELSE self.options.speed
          pinned == updatePosition(self, <<1, 2>>, <<1, 2>>, speed)
      IN  /\ b.speed = speed
          /\ b.baseX = pinned.x
          /\ b.baseY = pinned.y

\* A centered instance tracking an element that declares a percentage other
\* than 0.5.
C12_Witness ==
  /\ phase = "live"
  /\ self.options.center
  /\ \E i \in 1..Len(self.blocks) :
       LET el == page.els[self.blocks[i].node]
       IN  Has(el.percentage) /\ Val(el.percentage) # 50

\* The value of the declaration named exactly "transform" in a style text.
AuthorTransform(css) ==
  LET at == TransformDeclAt(css)
      rest == Slice(css, at + Len(S_transformDecl), Len(css))
      semi == IndexOf(rest, S_semicolon)
  IN  IF at = -1 THEN <<>>
      ELSE IF semi = -1 THEN rest
      ELSE Slice(rest, 0, semi)

\* C13: in every render the Z component is the element's declared zIndex
\* (0 when undeclared), and the style text of every tracked element is its
\* original style text with the transform set to the parallax translation
\* followed by the inline transform the element had before construction.
C13_AuthorTransformKept ==
  (phase = "live" /\ eff.renders # <<>>) =>
    \A i \in 1..Len(self.DOM.elements) :
      LET e == self.DOM.elements[i]
          el == page.els[e]
          r == eff.renders[Len(eff.renders)][i]
          z == IF Has(el.zIndex) THEN Val(el.zIndex) ELSE 0
          value == S_translate3d \o NumToChars(r.x) \o S_pxComma
                   \o NumToChars(r.y) \o S_pxComma \o NatToChars(z) \o S_pxClose
                   \o AuthorTransform(OriginalStyle(e))
      IN  /\ r.z = z
          /\ style[e] = SetTransform(OriginalStyle(e), value)

\* C14: on an instance that is not paused, a tick that finds the scroll
\* offset of an enabled axis different from the one recorded at the previous
\* tick records the new offsets and renders every tracked element.
C14_ScrollChangeRenders ==
  [][(/\ phase = "live"
      /\ ~self.pause
      /\ eff'.op = "tick"
      /\ \/ self.options.vertical /\ LiveScroll.y # self.pos.y
         \/ self.options.horizontal /\ LiveScroll.x # self.pos.x)
     => /\ self'.pos = LiveScroll
        /\ Len(eff'.renders) = 1
        /\ eff'.writes = Tracked]_vars

\* C15: a tick renders only on change.  A tick that finds every enabled axis
\* at the offset recorded at the previous tick writes no element style and
\* invokes no callback; in particular a change on a disabled axis alone does
\* not make the tick render.
C15_TickRendersOnlyOnChange ==
  [][(/\ phase = "live"
      /\ eff'.op = "tick"
      /\ self.options.vertical => LiveScroll.y = self.pos.y
      /\ self.options.horizontal => LiveScroll.x = self.pos.x)
     => /\ style' = style
        /\ eff'.writes = {}
        /\ eff'.renders = <<>>
        /\ eff'.callbacks = 0]_vars

\* A tick of a running instance with the horizontal axis disabled, taken
\* after the page was scrolled sideways only: it found no change.
C15_Witness ==
  /\ phase = "live"
  /\ eff.op = "tick"
  /\ ~self.pause
  /\ ~self.options.horizontal
  /\ self.options.vertical
  /\ scroll.x # 0
  /\ scroll.y = 0
  /\ ~eff.changed
  /\ eff.renders = <<>>

\* C16: at most one update is pending on the frame clock at any time,
\* whatever construct, refresh() calls and resize events came before.
C16_AtMostOneTickPending ==
  pending <= 1

\* C17: after construct and after every refresh() or resize event the
\* snapshot list has exactly one entry per tracked element, and snapshot i is
\* the snapshot of tracked element i: a re-initialization replaces the list,
\* it never appends to it.
C17_BlocksAlignedWithElements ==
  phase = "live" =>
    /\ Len(self.blocks) = Len(self.DOM.elements)
    /\ \A i \in 1..Len(self.blocks) : self.blocks[i].node = self.DOM.elements[i]

\* refresh() has just returned on an instance tracking two elements that
\* had been initialized before.
C17_Witness ==
  /\ phase = "live"
  /\ eff.op = "refresh"
  /\ eff.rebuilt
  /\ Len(self.DOM.elements) = 2
  /\ pending >= 2

\* C18: every tick hands the frame clock a following tick, whether or not
\* it rendered and whether or not the instance is paused; so, with a frame
\* clock that keeps delivering, a constructed instance is ticked again and
\* again, also after destroy().
C18_TickAlwaysReschedules ==
  /\ [][eff'.op = "tick" =>
          /\ eff'.scheduled = 1
          /\ pending' = pending
          /\ pending' >= 1]_vars
  /\ []<>(phase = "live" => eff.op = "tick")

\* A tick of a destroyed instance that saw no scroll change: it rendered
\* nothing and still left an update pending.
C18_Witness ==
  /\ eff.op = "tick"
  /\ self.pause
  /\ ~eff.changed
  /\ eff.renders = <<>>
  /\ pending >= 1

\* C19: a tick, rendering or not, leaves the snapshot list, the cached
\* viewport size, the options and the paused flag as they were; the
\* snapshots and the cached viewport change only in construct, refresh() and
\* a re-initialization on resize.
C19_TickLeavesSnapshotsAlone ==
  [][/\ eff'.op = "tick" =>
          /\ self'.blocks = self.blocks
          /\ self'.screen = self.screen
          /\ self'.options = self.options
          /\ self'.pause = self.pause
     /\ (self'.blocks # self.blocks \/ self'.screen # self.screen) =>
          eff'.op \in {"construct", "refresh", "resize"}]_vars

\* A tick that rendered at a scroll offset other than the one the snapshots
\* were taken at.
C19_Witness ==
  /\ eff.op = "tick"
  /\ eff.changed
  /\ ~self.pause
  /\ eff.renders # <<>>
  /\ self.pos.y # 0
  /\ self.blocks # <<>>

\* C20: the paused flag is monotone.  It is false when the instance is
\* constructed, only destroy() sets it, and no operation (refresh() and a
\* re-initialization on resize included) sets it back to false; so a tick of
\* a destroyed instance never renders, also after a later refresh().
C20_PauseIsMonotone ==
  /\ self.pause = FALSE
  /\ [][/\ self.pause => self'.pause
        /\ (self'.pause /\ ~self.pause) => eff'.op = "destroy"
        /\ eff'.op = "destroy" => self'.pause
        /\ (self.pause /\ eff'.op = "tick") => eff'.renders = <<>>]_vars

\* refresh() has just returned on a destroyed instance, which is still paused.
C20_Witness ==
  /\ phase = "live"
  /\ eff.op = "refresh"
  /\ eff.rebuilt
  /\ self.pause

====
